---- MODULE Spec2Model ----
(***************************************************************************)
(* Model of the frontier-exploration engine of fizzwiz/prism:              *)
(*   - Search      (src/main/core/Search.js)      the synchronous explorer *)
(*   - AsyncSearch (src/main/core/AsyncSearch.js) the batched explorer     *)
(* The queue (ArrayQueue of @fizzwiz/sorted) is an external collaborator;  *)
(* it is modelled from the Frontier contract of the specification.         *)
(***************************************************************************)
EXTENDS Integers, Sequences, FiniteSets, TLC

\* ------------------------------------------------------------------------
\* Bounds of the model
\* ------------------------------------------------------------------------
MaxPulls == 5      \* pulls (next() calls) issued by the consumer per traversal
MaxStart == 3      \* length of the start list
MaxBound == 2      \* configured max is unset or in 1..MaxBound
MaxFault == 3      \* the expansion function raises on no candidate or on one of 1..MaxFault
MaxCores == 2      \* configured cores is in 0..MaxCores
MaxValue == 4      \* a ConvergingRun starts from a value in 0..MaxValue
MaxSteps == 3      \* run(maxSteps) is called with maxSteps in 0..MaxSteps
MaxRuns == 2       \* calls of run() on one ConvergingRun

VARIABLES
  \* configuration (fields of Search / AsyncSearch)
  start,      \* this.start, a sequence of candidates
  spaceKind,  \* this.space, one of the expansion functions of SpaceKinds
  faults,     \* the candidates on which this.space raises
  fifo,       \* policy of this.queue: TRUE first-in-first-out, FALSE last-in-first-out
  max,        \* this.max: <<>> when undefined, <<m>> otherwise
  cores,      \* this.cores (AsyncSearch): the number, or what the function returns next
  coresKind,  \* "number" | "function": what this.cores holds
  guarded,    \* which definition of Search runs: TRUE the one that tests typeof space
  explorer,   \* "sync" | "async" | "both" | "none": which explorers have been constructed
  chain,      \* <<>>, or <<r, m>>: what the setter called last returned, and its max argument
  \* Search[Symbol.iterator]: one generator object
  sPc,        \* "start" | "yield" | "done" | "failed" | "closed"
  sQueue,     \* contents of this.queue, in insertion order
  sProduced,  \* candidates yielded to the consumer, in order
  sExpanded,  \* candidates on which space was invoked, in order
  sInserted,  \* every candidate passed to queue.addAll, in order
  sErr,       \* <<>> or <<item>>: the item named by the thrown Error
  sPulls,     \* number of next() calls issued so far
  sStopped,   \* the consumer has called return()
  sRound,     \* 1 for the first iteration of the Search, 2 for the second
  sPrev,      \* what the first iteration yielded, once the second has begun
  \* AsyncSearch[Symbol.asyncIterator] over AsyncSearch.batchIterator
  aPc,        \* "start" | "seeding" | "cores" | "expanding" | "yield" | "done" | "failed" | "closed"
  aQueue,     \* contents of this.queue, in insertion order
  aBatch,     \* the batch last removed from the queue
  aBatchNo,   \* number of batches removed so far
  aIdx,       \* number of candidates of aBatch yielded so far
  aInflight,  \* expansions started and not yet settled: [batch, idx, item]
  aResults,   \* settled results of the current batch, by position (Pending until settled)
  aMerged,    \* number of batches whose results were added to the queue
  aAtPull,    \* the queue as the last batch removal left it
  aProduced,  \* candidates yielded to the consumer, in order
  aExpanded,  \* candidates on which space was invoked, in order
  aResolved,  \* number of resolveCores() calls
  aErr,       \* <<>> or <<batch>>: the batch named by the thrown Error
  aStopAt,    \* "none", or the value of aPc when the consumer called return()
  aPulls,     \* number of next() calls issued so far
  aWidth,     \* batchLength: the width resolved for the batch removed last
  aRaw,       \* the value this.cores gave for that batch, before Math.max
  aRound,     \* 1 for the first iteration of the AsyncSearch, 2 for the second
  aPrev,      \* what the first iteration yielded, once the second has begun
  \* ConvergingRun
  rResult,    \* this._result
  rStepper,   \* this._stepper, one of Steppers
  rChecker,   \* this._convergenceChecker, one of Checkers
  rRuns,      \* number of calls of run() so far
  rArg,       \* <<>> or <<maxSteps>> of the last call of run()
  rFrom,      \* this._result when the last run() was called
  rCalls      \* number of times the last run() called the stepper

cfgVars == <<start, spaceKind, faults, fifo, max, cores, coresKind, guarded, explorer,
             chain>>
syncVars == <<sPc, sQueue, sProduced, sExpanded, sInserted, sErr, sPulls, sStopped,
              sRound, sPrev>>
asyncVars == <<aPc, aQueue, aBatch, aBatchNo, aIdx, aInflight, aResults, aMerged,
               aAtPull, aProduced, aExpanded, aResolved, aErr, aStopAt, aPulls,
               aWidth, aRaw, aRound, aPrev>>
runVars == <<rResult, rStepper, rChecker, rRuns, rArg, rFrom, rCalls>>
vars == <<cfgVars, syncVars, asyncVars, runVars>>

\* ------------------------------------------------------------------------
\* Values
\* ------------------------------------------------------------------------
\* the value `undefined` when it ends up among the candidates
Undef == 0

\* an expansion result: `undefined` or an iterable of candidates
NoExpansion == [def |-> FALSE, items |-> <<>>]
Items(s) == [def |-> TRUE, items |-> s]

SpaceKinds == {"succ1", "succ2", "cut"}

\* start candidates: one that every expansion function expands, one that "cut" does not
SeedValues == {1, 3}

\* the expansion functions used by the tests of Search
Expand(kind, c) ==
  CASE kind = "succ1" -> Items(<<c + 1>>)
    [] kind = "succ2" -> Items(<<c + 1, c + 2>>)
    [] kind = "cut"   -> IF c # Undef /\ c < 3 THEN Items(<<c + 1>>) ELSE NoExpansion
    [] OTHER          -> NoExpansion

Raises(c) == c \in faults

\* this.space when no expansion function was configured
NoSpace == "none"

\* this.space holds a function
SpaceSet == spaceKind # NoSpace

\* sequences over S of length 0..n
RECURSIVE SeqsUpTo(_, _)
SeqsUpTo(S, n) ==
  IF n = 0 THEN {<<>>}
  ELSE LET shorter == SeqsUpTo(S, n - 1)
       IN shorter \cup {Append(s, x) : s \in {t \in shorter : Len(t) = n - 1}, x \in S}

IsPrefix(s, t) == Len(s) <= Len(t) /\ \A i \in 1..Len(s) : s[i] = t[i]

\* ------------------------------------------------------------------------
\* The Frontier (ArrayQueue): a sequence in insertion order
\* ------------------------------------------------------------------------
Clear == <<>>

AddAll(q, items) == q \o items

N(q) == Len(q)

\* the item poll(first) would return
Peek(q, first) == IF first = fifo THEN q[1] ELSE q[Len(q)]

\* the queue after poll(first)
Poll(q, first) ==
  IF first = fifo THEN SubSeq(q, 2, Len(q)) ELSE SubSeq(q, 1, Len(q) - 1)

\* select(n, first): keep the first (or last) n items, return the removed ones
RECURSIVE Select(_, _, _)
Select(q, n, first) ==
  IF Len(q) > n /\ Len(q) > 0
  THEN LET rest == Select(Poll(q, ~first), n, first)
       IN [kept |-> rest.kept, removed |-> <<Peek(q, ~first)>> \o rest.removed]
  ELSE [kept |-> q, removed |-> <<>>]

\* ------------------------------------------------------------------------
\* Search[Symbol.iterator]
\* ------------------------------------------------------------------------
\* (variant) the start candidates are added without clearing the queue first
SeedQueueNoClear(starts) == AddAll(sQueue, starts)

\* queue.clear(); queue.addAll(starts)
SeedQueue(starts) == AddAll(Clear, starts)

\* (variant) the item is taken from the wrong end of the queue
PollNextFromEnd(q) == [item |-> Peek(q, FALSE), rest |-> Poll(q, FALSE)]

\* (variant) the next candidate is read and left in the queue
PollNextKeeps(q) == [item |-> Peek(q, TRUE), rest |-> q]

\* const item = queue.poll(): the item and the queue it leaves
PollNext(q) == [item |-> Peek(q, TRUE), rest |-> Poll(q, TRUE)]

\* (variant) an undefined result is added to the queue as a candidate
\* (variant) when the queue runs empty, a candidate inserted earlier is taken up again
MergeRevisits(q, more, mx) ==
  LET added == IF more.def THEN AddAll(q, more.items) ELSE q
      kept == IF more.def /\ mx # <<>> THEN Select(added, mx[1], TRUE).kept ELSE added
  IN IF kept = <<>> /\ sInserted # <<>> THEN <<sInserted[1]>> ELSE kept

\* (variant) the result of the expansion is not added to the queue
MergeDropsAdded(q, more, mx) == q

MergeKeepsMarker(q, more, mx) ==
  LET added == AddAll(q, IF more.def THEN more.items ELSE <<Undef>>)
  IN IF mx # <<>> THEN Select(added, mx[1], TRUE).kept ELSE added

\* if (more !== undefined) { queue.addAll(more); if (max !== undefined) queue.select(max) }
Merge(q, more, mx) ==
  IF more.def
  THEN LET added == AddAll(q, more.items)
       IN IF mx # <<>> THEN Select(added, mx[1], TRUE).kept ELSE added
  ELSE q

\* what addAll received in that step
Added(more) == IF more.def THEN more.items ELSE <<>>

\* (variant) the catch block clears the queue before it throws
SyncQueueOnFaultCleared(polled) == Clear

\* the catch block only throws: the queue is what queue.poll() left
SyncQueueOnFault(polled) == polled

\* (variant) the catch block swallows the error and the generator stays at its yield
SyncAfterThrowSwallowed == "yield"

\* state of the generator after the throw of the catch block
SyncAfterThrow == "failed"

\* (variant) return() leaves the generator resumable
SyncAfterReturnResumable == "yield"

\* state of the generator after the consumer's return() at the yield
SyncAfterReturn == "closed"

\* the try block of Search throws on item: space raises, or space is undefined and is
\* called all the same (the definition that tests typeof space does not call it)
SyncRaises(item) == IF SpaceSet THEN Raises(item) ELSE ~guarded

\* one iteration of `while (queue.n() > 0)` up to the yield, from queue q
SyncLoop(q, ins) ==
  IF N(q) = 0
  THEN /\ sPc' = "done"
       /\ sQueue' = q
       /\ sInserted' = ins
       /\ UNCHANGED <<sProduced, sExpanded, sErr>>
  ELSE LET item == PollNext(q).item
           polled == PollNext(q).rest
       IN /\ sExpanded' = IF SpaceSet THEN Append(sExpanded, item) ELSE sExpanded
          /\ IF SyncRaises(item)
             THEN /\ sPc' = SyncAfterThrow
                  /\ sErr' = <<item>>
                  /\ sQueue' = SyncQueueOnFault(polled)
                  /\ sInserted' = ins
                  /\ UNCHANGED sProduced
             ELSE LET more == Expand(spaceKind, item)
                  IN /\ sQueue' = Merge(polled, more, max)
                     /\ sInserted' = ins \o Added(more)
                     /\ sProduced' = Append(sProduced, item)
                     /\ sPc' = "yield"
                     /\ UNCHANGED sErr

\* first next(): the generator body starts
SyncFirstPull ==
  /\ sPc = "start"
  /\ sPulls < MaxPulls
  /\ sPulls' = sPulls + 1
  /\ SyncLoop(SeedQueue(start), sInserted \o start)
  /\ UNCHANGED <<sStopped, sRound, sPrev>>
  /\ UNCHANGED <<cfgVars, asyncVars, runVars>>

\* next() at the yield: the loop resumes
SyncPull ==
  /\ sPc = "yield"
  /\ sPulls < MaxPulls
  /\ sPulls' = sPulls + 1
  /\ SyncLoop(sQueue, sInserted)
  /\ UNCHANGED <<sStopped, sRound, sPrev>>
  /\ UNCHANGED <<cfgVars, asyncVars, runVars>>

\* the consumer leaves its loop (break): return() on the generator
SyncReturn ==
  /\ sPc \in {"start", "yield"}
  /\ sPc' = SyncAfterReturn
  /\ sStopped' = TRUE
  /\ UNCHANGED <<sQueue, sProduced, sExpanded, sInserted, sErr, sPulls, sRound, sPrev>>
  /\ UNCHANGED <<cfgVars, asyncVars, runVars>>

\* next() on a generator that has completed (returned, thrown or closed)
SyncPullCompleted ==
  /\ sPc \in {"done", "failed", "closed"}
  /\ sPulls < MaxPulls
  /\ sPulls' = sPulls + 1
  /\ UNCHANGED <<sPc, sQueue, sProduced, sExpanded, sInserted, sErr, sStopped,
                 sRound, sPrev>>
  /\ UNCHANGED <<cfgVars, asyncVars, runVars>>

\* ------------------------------------------------------------------------
\* AsyncSearch.batchIterator and AsyncSearch[Symbol.asyncIterator]
\* ------------------------------------------------------------------------
\* an expansion that has not settled yet / that fulfilled with result r
Pending == [done |-> FALSE, res |-> NoExpansion]
Settled(r) == [done |-> TRUE, res |-> r]

\* (variant) the results are collected in the order in which the expansions fulfil
StoreResultInArrivalOrder(results, idx, r) ==
  LET k == CHOOSE i \in 1..Len(results) :
             ~results[i].done /\ \A j \in 1..(i - 1) : results[j].done
  IN [results EXCEPT ![k] = r]

\* Promise.all: the value of the promise at index idx of the array is stored at index idx
StoreResult(results, idx, r) == [results EXCEPT ![idx] = r]

\* (variant) the width is used as this.cores gave it, without Math.max
ResolveCoresRaw(v) == v

\* resolveCores(): Math.max(1, batchLength)
ResolveCores(v) == IF v > 1 THEN v ELSE 1

\* (variant) the batch is selected without the `false` argument, from the other end
TakeBatchKeepFirst(q, w) == Select(q, N(q) - w, TRUE)

\* (variant) one candidate more than the width is selected
TakeBatchOneMore(q, w) == Select(q, N(q) - w - 1, FALSE)

\* const batch = queue.select(queue.n() - batchLength, false)
TakeBatch(q, w) == Select(q, N(q) - w, FALSE)

\* (variant) the await resumes as soon as one expansion of the batch has fulfilled
BatchAnySettled == \E i \in 1..Len(aResults) : aResults[i].done

\* (variant) the await resumes when the expansion of the first member has fulfilled
BatchFirstSettled == aResults[1].done

\* await Promise.all(batch.map(space)) resumes: every expansion of the batch fulfilled
BatchSettled == \A e \in aInflight : e.batch # aBatchNo

\* one element of the array of results under .flat(): an array is spread, undefined stays
FlatOne(r) == IF r.res.def THEN r.res.items ELSE <<Undef>>

\* (...).flat() over the settled results, in batch order
RECURSIVE Flatten(_)
Flatten(results) ==
  IF Len(results) = 0 THEN <<>>
  ELSE (IF results[1].done THEN FlatOne(results[1]) ELSE <<>>) \o Flatten(Tail(results))

\* (variant) the queue is bounded before the results are added instead of after
AsyncMergeBoundFirst(q, more, mx) ==
  AddAll(IF mx # <<>> THEN Select(q, mx[1], TRUE).kept ELSE q, more)

\* (variant) the results are dropped when the consumer has asked to stop
AsyncMergeUnlessStopped(q, more, mx) ==
  LET added == AddAll(q, more)
  IN IF aStopAt # "none" THEN q
     ELSE IF mx # <<>> THEN Select(added, mx[1], TRUE).kept ELSE added

\* queue.addAll(more); if (max !== undefined) queue.select(max)
AsyncMerge(q, more, mx) ==
  LET added == AddAll(q, more)
  IN IF mx # <<>> THEN Select(added, mx[1], TRUE).kept ELSE added

\* (variant) the results of the siblings that had fulfilled are added before the throw
QueueOnFaultPartial(q, results) == AddAll(q, Flatten(results))

\* the catch block throws before queue.addAll: the queue keeps what it held
QueueOnFault(q, results) == q

\* state of the generators after the throw of the catch block
AsyncAfterThrow == "failed"

\* (variant) return() leaves the generators resumable
AsyncAfterReturnResumable == "yield"

\* state of the generators after the consumer's return() is served at a yield
AsyncAfterReturn == "closed"

\* the error thrown when this.cores() rejects names no batch
NoBatch == <<>>

\* (variant) the batch is selected before the width is awaited
QueueOnCoresFaultTaken(q) == TakeBatch(q, 1).kept

\* `await this.resolveCores()` comes before queue.select: the queue is untouched when
\* it rejects
QueueOnCoresFault(q) == q

\* (variant) the width is resolved for the test of the loop and again in its body
AsyncLoopResolveTwice(q) ==
  IF N(q) > 0
  THEN /\ aPc' = "cores"
       /\ aResolved' = aResolved + 2
  ELSE /\ aPc' = "done"
       /\ aResolved' = aResolved + 1

\* (variant) the body of the loop is entered without testing the queue
AsyncLoopNoTest(q) ==
  /\ aPc' = "cores"
  /\ aResolved' = aResolved + 1

\* `while (queue.n() > 0)` is evaluated on queue q; resolveCores() is called when it holds
AsyncLoop(q) ==
  IF N(q) > 0
  THEN /\ aPc' = "cores"
       /\ aResolved' = aResolved + 1
  ELSE /\ aPc' = "done"
       /\ UNCHANGED aResolved

\* (variant) the loop goes on to the next batch as soon as the last candidate of a
\* batch is delivered, without waiting for the next next()
AsyncYieldPrefetch(item) ==
  /\ aProduced' = Append(aProduced, item)
  /\ aPc' = IF aStopAt # "none" THEN AsyncAfterReturn
            ELSE IF aPc = "yield" /\ aIdx + 1 = Len(aBatch) /\ aQueue # <<>> THEN "cores"
            ELSE "yield"

\* `yield candidate` delivers item; a return() queued meanwhile is served right after
AsyncYield(item) ==
  /\ aProduced' = Append(aProduced, item)
  /\ aPc' = IF aStopAt # "none" THEN AsyncAfterReturn ELSE "yield"

\* first next(): queue.clear(), then the start candidates are awaited
AsyncFirstPull ==
  /\ aPc = "start"
  /\ aPulls < MaxPulls
  /\ aPulls' = aPulls + 1
  /\ aPc' = "seeding"
  /\ aQueue' = Clear
  /\ UNCHANGED <<aBatch, aBatchNo, aIdx, aInflight, aResults, aMerged, aAtPull,
                 aProduced, aExpanded, aResolved, aErr, aStopAt,
                 aWidth, aRaw, aRound, aPrev>>
  /\ UNCHANGED <<cfgVars, syncVars, runVars>>

\* queue.addAll(await AsyncEach.as(starts).toArray()), then the loop is entered
AsyncSeed ==
  /\ aPc = "seeding"
  /\ aQueue' = AddAll(aQueue, start)
  /\ AsyncLoop(aQueue')
  /\ UNCHANGED <<aBatch, aBatchNo, aIdx, aInflight, aResults, aMerged, aAtPull,
                 aProduced, aExpanded, aErr, aStopAt, aPulls,
                 aWidth, aRaw, aRound, aPrev>>
  /\ UNCHANGED <<cfgVars, syncVars, runVars>>

\* the width resolved from value v: the batch is removed and space is invoked on each
\* member; space returns one promise per member, which fulfils or rejects later, in any
\* order. With no space, batch.map throws at once and the catch block throws.
AsyncDispatchWith(v) ==
  /\ aPc = "cores"
  /\ LET sel == TakeBatch(aQueue, ResolveCores(v))
         batch == sel.removed
     IN /\ aBatch' = batch
        /\ aQueue' = sel.kept
        /\ aAtPull' = sel.kept
        /\ aBatchNo' = aBatchNo + 1
        /\ aResults' = [i \in 1..Len(batch) |-> Pending]
        /\ IF SpaceSet
           THEN /\ aInflight' = aInflight \cup
                     {[batch |-> aBatchNo + 1, idx |-> i, item |-> batch[i]] :
                        i \in 1..Len(batch)}
                /\ aExpanded' = aExpanded \o batch
                /\ aPc' = "expanding"
                /\ UNCHANGED aErr
           ELSE /\ aPc' = AsyncAfterThrow
                /\ aErr' = <<batch>>
                /\ UNCHANGED <<aInflight, aExpanded>>
  /\ aWidth' = ResolveCores(v)
  /\ aRaw' = v
  /\ aIdx' = 0
  /\ UNCHANGED <<aMerged, aProduced, aResolved, aStopAt, aPulls, aRound, aPrev>>
  /\ UNCHANGED <<cfgVars, syncVars, runVars>>

\* this.cores is a number
AsyncDispatch ==
  /\ coresKind = "number"
  /\ AsyncDispatchWith(cores)

\* one expansion of the awaited batch fulfils
\* this.cores is a function: the awaited call gives any integer
AsyncDispatchFn ==
  /\ coresKind = "function"
  /\ \E v \in (0 - 1)..MaxCores : AsyncDispatchWith(v)

\* this.cores is a function and its call rejects: `await this.resolveCores()` is outside
\* the try block, the rejection leaves the generator as it is
AsyncCoresReject ==
  /\ coresKind = "function"
  /\ aPc = "cores"
  /\ aPc' = AsyncAfterThrow
  /\ aErr' = <<NoBatch>>
  /\ aQueue' = QueueOnCoresFault(aQueue)
  /\ UNCHANGED <<aBatch, aBatchNo, aIdx, aInflight, aResults, aMerged, aAtPull,
                 aProduced, aExpanded, aResolved, aStopAt, aPulls,
                 aWidth, aRaw, aRound, aPrev>>
  /\ UNCHANGED <<cfgVars, syncVars, runVars>>

AsyncFulfil ==
  /\ aPc = "expanding"
  /\ \E e \in aInflight :
       /\ e.batch = aBatchNo
       /\ ~Raises(e.item)
       /\ aInflight' = aInflight \ {e}
       /\ aResults' = StoreResult(aResults, e.idx, Settled(Expand(spaceKind, e.item)))
  /\ UNCHANGED <<aPc, aQueue, aBatch, aBatchNo, aIdx, aMerged, aAtPull,
                 aProduced, aExpanded, aResolved, aErr, aStopAt, aPulls,
                 aWidth, aRaw, aRound, aPrev>>
  /\ UNCHANGED <<cfgVars, syncVars, runVars>>

\* one expansion of the awaited batch rejects: Promise.all rejects, the catch block throws
AsyncReject ==
  /\ aPc = "expanding"
  /\ \E e \in aInflight :
       /\ e.batch = aBatchNo
       /\ Raises(e.item)
       /\ aInflight' = aInflight \ {e}
  /\ aPc' = AsyncAfterThrow
  /\ aErr' = <<aBatch>>
  /\ aQueue' = QueueOnFault(aQueue, aResults)
  /\ UNCHANGED <<aBatch, aBatchNo, aIdx, aResults, aMerged, aAtPull,
                 aProduced, aExpanded, aResolved, aStopAt, aPulls,
                 aWidth, aRaw, aRound, aPrev>>
  /\ UNCHANGED <<cfgVars, syncVars, runVars>>

\* an expansion nobody awaits any more runs to completion; its outcome is dropped
AsyncSettleLate ==
  /\ \E e \in aInflight :
       /\ aPc # "expanding" \/ e.batch # aBatchNo
       /\ aInflight' = aInflight \ {e}
  /\ UNCHANGED <<aPc, aQueue, aBatch, aBatchNo, aIdx, aResults, aMerged, aAtPull,
                 aProduced, aExpanded, aResolved, aErr, aStopAt, aPulls,
                 aWidth, aRaw, aRound, aPrev>>
  /\ UNCHANGED <<cfgVars, syncVars, runVars>>

\* the results are flattened and added, the queue is bounded, the batch is yielded and
\* its first candidate is delivered
AsyncMergeAndYield ==
  /\ aPc = "expanding"
  /\ BatchSettled
  /\ aQueue' = AsyncMerge(aQueue, Flatten(aResults), max)
  /\ aMerged' = aBatchNo
  /\ aIdx' = 1
  /\ AsyncYield(aBatch[1])
  /\ UNCHANGED <<aBatch, aBatchNo, aInflight, aResults, aAtPull,
                 aExpanded, aResolved, aErr, aStopAt, aPulls,
                 aWidth, aRaw, aRound, aPrev>>
  /\ UNCHANGED <<cfgVars, syncVars, runVars>>

\* next() at the yield, candidates of the batch left: the next one is delivered
AsyncPullInBatch ==
  /\ aPc = "yield"
  /\ aIdx < Len(aBatch)
  /\ aPulls < MaxPulls
  /\ aPulls' = aPulls + 1
  /\ aIdx' = aIdx + 1
  /\ AsyncYield(aBatch[aIdx + 1])
  /\ UNCHANGED <<aQueue, aBatch, aBatchNo, aInflight, aResults, aMerged, aAtPull,
                 aExpanded, aResolved, aErr, aStopAt,
                 aWidth, aRaw, aRound, aPrev>>
  /\ UNCHANGED <<cfgVars, syncVars, runVars>>

\* next() at the yield, batch exhausted: batchIterator resumes after `yield batch`
AsyncPullNextBatch ==
  /\ aPc = "yield"
  /\ aIdx = Len(aBatch)
  /\ aPulls < MaxPulls
  /\ aPulls' = aPulls + 1
  /\ AsyncLoop(aQueue)
  /\ UNCHANGED <<aQueue, aBatch, aBatchNo, aIdx, aInflight, aResults, aMerged, aAtPull,
                 aProduced, aExpanded, aErr, aStopAt,
                 aWidth, aRaw, aRound, aPrev>>
  /\ UNCHANGED <<cfgVars, syncVars, runVars>>

\* the consumer leaves its loop (break) while the generator is suspended
AsyncReturn ==
  /\ aPc \in {"start", "yield"}
  /\ aPc' = AsyncAfterReturn
  /\ aStopAt' = aPc
  /\ UNCHANGED <<aQueue, aBatch, aBatchNo, aIdx, aInflight, aResults, aMerged, aAtPull,
                 aProduced, aExpanded, aResolved, aErr, aPulls,
                 aWidth, aRaw, aRound, aPrev>>
  /\ UNCHANGED <<cfgVars, syncVars, runVars>>

\* the consumer calls return() while its next() is still pending: the request is queued
AsyncReturnPending ==
  /\ aPc \in {"seeding", "cores", "expanding"}
  /\ aStopAt = "none"
  /\ aStopAt' = aPc
  /\ UNCHANGED <<aPc, aQueue, aBatch, aBatchNo, aIdx, aInflight, aResults, aMerged,
                 aAtPull, aProduced, aExpanded, aResolved, aErr, aPulls,
                 aWidth, aRaw, aRound, aPrev>>
  /\ UNCHANGED <<cfgVars, syncVars, runVars>>

\* next() on generators that have completed (returned, thrown or closed)
AsyncPullCompleted ==
  /\ aPc \in {"done", "failed", "closed"}
  /\ aPulls < MaxPulls
  /\ aPulls' = aPulls + 1
  /\ UNCHANGED <<aPc, aQueue, aBatch, aBatchNo, aIdx, aInflight, aResults, aMerged,
                 aAtPull, aProduced, aExpanded, aResolved, aErr, aStopAt,
                 aWidth, aRaw, aRound, aPrev>>
  /\ UNCHANGED <<cfgVars, syncVars, runVars>>

\* ------------------------------------------------------------------------
\* ConvergingRun
\* ------------------------------------------------------------------------
Steppers == {"halve", "cycle", "climb"}

Checkers == {"same", "near", "zero", "never"}

\* What.what(this.stepper, prev): the stepper applied to prev
Step(kind, x) ==
  CASE kind = "halve" -> x \div 2
    [] kind = "cycle" -> (x + 1) % 3
    [] OTHER          -> IF x < MaxValue + MaxSteps * MaxRuns THEN x + 1 ELSE x

\* What.what(this.convergenceChecker, prev, next)
Check(kind, prev, next) ==
  CASE kind = "same" -> prev = next
    [] kind = "near" -> prev - next \in {0 - 1, 0, 1}
    [] kind = "zero" -> next = 0
    [] OTHER         -> FALSE

\* get hasConverged(), on result x
HasConverged(x) == Check(rChecker, x, Step(rStepper, x))

\* (variant) on convergence the loop keeps the value just computed
RECURSIVE RunLoopKeepsNext(_, _, _, _)
RunLoopKeepsNext(prev, i, n, calls) ==
  IF i < n
  THEN LET next == Step(rStepper, prev)
           done == Check(rChecker, prev, next)
       IN IF done THEN [result |-> next, calls |-> calls + 1]
          ELSE RunLoopKeepsNext(next, i + 1, n, calls + 1)
  ELSE [result |-> prev, calls |-> calls]

\* the for loop of run(n), entered with prev and i: the value left in prev and the
\* number of calls of the stepper
RECURSIVE RunLoop(_, _, _, _)
RunLoop(prev, i, n, calls) ==
  IF i < n
  THEN LET next == Step(rStepper, prev)
           done == Check(rChecker, prev, next)
       IN IF done THEN [result |-> prev, calls |-> calls + 1]
          ELSE RunLoop(next, i + 1, n, calls + 1)
  ELSE [result |-> prev, calls |-> calls]

\* run(maxSteps)
Run ==
  /\ explorer = "none"
  /\ rRuns < MaxRuns
  /\ \E n \in 0..MaxSteps :
       LET out == RunLoop(rResult, 0, n, 0)
       IN /\ rResult' = out.result
          /\ rCalls' = out.calls
          /\ rArg' = <<n>>
  /\ rFrom' = rResult
  /\ rRuns' = rRuns + 1
  /\ UNCHANGED <<rStepper, rChecker>>
  /\ UNCHANGED <<cfgVars, syncVars, asyncVars>>

\* no ConvergingRun has been constructed
InitRunIdle ==
  /\ rResult = 0
  /\ rStepper = "none"
  /\ rChecker = "none"
  /\ rRuns = 0
  /\ rArg = <<>>
  /\ rFrom = 0
  /\ rCalls = 0

\* ------------------------------------------------------------------------
\* Specifications
\* ------------------------------------------------------------------------
InitCfg ==
  /\ start \in SeqsUpTo(SeedValues, MaxStart)
  /\ spaceKind \in SpaceKinds
  /\ faults \in {{}} \cup {{c} : c \in 1..MaxFault}
  /\ fifo \in BOOLEAN
  /\ max \in {<<>>} \cup {<<m>> : m \in 1..MaxBound}
  /\ cores \in 0..MaxCores
  /\ coresKind = "number"
  /\ chain = <<>>
  /\ InitRunIdle
  /\ guarded = FALSE
  /\ explorer = "both"

InitSync ==
  /\ sPc = "start"
  /\ sQueue = <<>>
  /\ sProduced = <<>>
  /\ sExpanded = <<>>
  /\ sInserted = <<>>
  /\ sErr = <<>>
  /\ sPulls = 0
  /\ sStopped = FALSE
  /\ sRound = 1
  /\ sPrev = <<>>

InitAsync ==
  /\ aPc = "start"
  /\ aQueue = <<>>
  /\ aBatch = <<>>
  /\ aBatchNo = 0
  /\ aIdx = 0
  /\ aInflight = {}
  /\ aResults = <<>>
  /\ aMerged = 0
  /\ aAtPull = <<>>
  /\ aProduced = <<>>
  /\ aExpanded = <<>>
  /\ aResolved = 0
  /\ aErr = <<>>
  /\ aStopAt = "none"
  /\ aPulls = 0
  /\ aWidth = 0
  /\ aRaw = 0
  /\ aRound = 1
  /\ aPrev = <<>>

Init == InitCfg /\ InitSync /\ InitAsync

NextSync ==
  \/ SyncFirstPull
  \/ SyncPull
  \/ SyncReturn
  \/ SyncPullCompleted

NextAsync ==
  \/ AsyncFirstPull
  \/ AsyncSeed
  \/ AsyncDispatch
  \/ AsyncFulfil
  \/ AsyncReject
  \/ AsyncSettleLate
  \/ AsyncMergeAndYield
  \/ AsyncPullInBatch
  \/ AsyncPullNextBatch
  \/ AsyncReturn
  \/ AsyncReturnPending
  \/ AsyncPullCompleted

\* a Search alone
SpecSync == Init /\ [][NextSync]_vars

\* an AsyncSearch alone
SpecAsync == Init /\ [][NextAsync]_vars

\* the configurations on which Search and AsyncSearch are compared: first-in-first-out
\* queue, no max, an expansion function that returns a list for every candidate
InitPair ==
  /\ start \in SeqsUpTo(SeedValues, MaxStart)
  /\ spaceKind \in {"succ1", "succ2"}
  /\ faults = {}
  /\ fifo = TRUE
  /\ max = <<>>
  /\ cores \in 0..MaxCores
  /\ coresKind = "number"
  /\ chain = <<>>
  /\ InitRunIdle
  /\ guarded = FALSE
  /\ explorer = "both"
  /\ InitSync
  /\ InitAsync

NextPair ==
  \/ SyncFirstPull
  \/ SyncPull
  \/ SyncReturn
  \/ SyncPullCompleted
  \/ AsyncFirstPull
  \/ AsyncSeed
  \/ AsyncDispatch
  \/ AsyncFulfil
  \/ AsyncMergeAndYield
  \/ AsyncPullInBatch
  \/ AsyncPullNextBatch
  \/ AsyncReturn
  \/ AsyncReturnPending
  \/ AsyncPullCompleted

\* a Search and an AsyncSearch with the same configuration, each on its own queue
SpecPair == InitPair /\ [][NextPair]_vars

\* ------------------------------------------------------------------------
\* A Search without max whose consumer pulls until the end
\* ------------------------------------------------------------------------
InitDrain ==
  /\ explorer = "sync"
  /\ start \in SeqsUpTo(SeedValues, MaxStart)
  /\ spaceKind \in SpaceKinds
  /\ faults = {}
  /\ guarded = FALSE
  /\ fifo \in BOOLEAN
  /\ max = <<>>
  /\ cores = 0
  /\ coresKind = "number"
  /\ chain = <<>>
  /\ InitRunIdle
  /\ InitSync
  /\ InitAsync

NextDrain ==
  \/ SyncFirstPull
  \/ SyncPull
  \/ SyncPullCompleted

\* a for-of loop without break: the consumer calls next() again after every yield
SpecDrain ==
  InitDrain /\ [][NextDrain]_vars /\ WF_vars(SyncFirstPull) /\ WF_vars(SyncPull)

\* ------------------------------------------------------------------------
\* An AsyncSearch whose cores is any integer or a function
\* ------------------------------------------------------------------------
InitDyn ==
  /\ explorer = "async"
  /\ start \in SeqsUpTo(SeedValues, MaxStart - 1)
  /\ spaceKind \in SpaceKinds
  /\ faults \in {{}, {MaxFault}}
  /\ guarded = FALSE
  /\ fifo \in BOOLEAN
  /\ max \in {<<>>, <<MaxBound>>}
  /\ coresKind \in {"number", "function"}
  /\ chain = <<>>
  /\ InitRunIdle
  /\ cores \in (IF coresKind = "number" THEN (0 - 1)..MaxCores ELSE {0})
  /\ InitSync
  /\ InitAsync

NextDyn ==
  \/ NextAsync
  \/ AsyncDispatchFn
  \/ AsyncCoresReject

SpecAsyncDyn == InitDyn /\ [][NextDyn]_vars

\* ------------------------------------------------------------------------
\* One explorer, any constructor arguments, the fluent setters
\* ------------------------------------------------------------------------
\* values of max that are not a positive size
BadBounds == {0 - 1, 0}

\* what a queue handed to the explorer may already hold
Leftovers == {<<>>, <<1>>}

\* no iteration of the constructed explorer has begun
NotStarted ==
  /\ explorer = "sync" => (sPc = "start" /\ sRound = 1)
  /\ explorer = "async" => (aPc = "start" /\ aRound = 1)

\* from(...starts): this.start = starts
From(st) ==
  /\ NotStarted
  /\ start' = st
  /\ UNCHANGED <<spaceKind, faults, fifo, max, cores, coresKind, guarded, explorer>>
  /\ UNCHANGED <<syncVars, asyncVars, runVars>>

\* through(space): this.space = space
Through(k, f) ==
  /\ NotStarted
  /\ spaceKind' = k
  /\ faults' = f
  /\ UNCHANGED <<start, fifo, max, cores, coresKind, guarded, explorer>>
  /\ UNCHANGED <<syncVars, asyncVars, runVars>>

\* (variant) this.max = max, whether max is given or not
ViaMaxAlways(old, m) == m

\* if (max !== undefined) this.max = max
ViaMax(old, m) == IF m # <<>> THEN m ELSE old

\* via(queue, max): this.queue = queue, a queue of policy f that holds `held`
Via(f, held, m) ==
  /\ NotStarted
  /\ fifo' = f
  /\ max' = ViaMax(max, m)
  /\ IF explorer = "sync"
     THEN sQueue' = held /\ UNCHANGED aQueue
     ELSE aQueue' = held /\ UNCHANGED sQueue
  /\ UNCHANGED <<start, spaceKind, faults, cores, coresKind, guarded, explorer>>
  /\ UNCHANGED <<sPc, sProduced, sExpanded, sInserted, sErr, sPulls, sStopped, sRound, sPrev>>
  /\ UNCHANGED <<aPc, aBatch, aBatchNo, aIdx, aInflight, aResults, aMerged, aAtPull,
                 aProduced, aExpanded, aResolved, aErr, aStopAt, aPulls,
                 aWidth, aRaw, aRound, aPrev>>
  /\ UNCHANGED runVars

\* inParallel(cores), on an AsyncSearch: this.cores = cores
InParallel(c) ==
  /\ NotStarted
  /\ explorer = "async"
  /\ cores' = c
  /\ UNCHANGED <<start, spaceKind, faults, fifo, max, coresKind, guarded, explorer>>
  /\ UNCHANGED <<syncVars, asyncVars, runVars>>

\* the bounds a caller may pass as max
BoundArgs == {<<>>} \cup {<<b>> : b \in BadBounds \cup 1..MaxBound}

\* the setters called as statements, their return value dropped
SetFrom ==
  /\ \E st \in SeqsUpTo(SeedValues, MaxStart - 1) : From(st)
  /\ UNCHANGED chain

SetThrough ==
  /\ \E k \in SpaceKinds, f \in {{}, {MaxFault}} : Through(k, f)
  /\ UNCHANGED chain

SetVia ==
  /\ \E f \in BOOLEAN, held \in Leftovers, m \in BoundArgs : Via(f, held, m)
  /\ UNCHANGED chain

SetInParallel ==
  /\ \E c \in 0..MaxCores : InParallel(c)
  /\ UNCHANGED chain

\* `return this`
SetterReturns == "this"

\* the setters called in a chain: the caller goes on with what the call returned
ChainFrom ==
  /\ \E st \in SeqsUpTo(SeedValues, 1) : From(st)
  /\ chain' = <<SetterReturns, <<>>>>

ChainThrough ==
  /\ \E k \in SpaceKinds : Through(k, {})
  /\ chain' = <<SetterReturns, <<>>>>

ChainVia ==
  \E f \in BOOLEAN, m \in BoundArgs :
    /\ Via(f, <<>>, m)
    /\ chain' = <<SetterReturns, m>>

ChainInParallel ==
  /\ \E c \in 0..MaxCores : InParallel(c)
  /\ chain' = <<SetterReturns, <<>>>>

\* new Search() or new AsyncSearch(), or either with a max
InitFluent ==
  /\ explorer \in {"sync", "async"}
  /\ start = <<>>
  /\ spaceKind = NoSpace
  /\ faults = {}
  /\ guarded = FALSE
  /\ fifo = TRUE
  /\ max \in {<<>>, <<MaxBound>>}
  /\ cores = (IF explorer = "async" THEN MaxCores ELSE 0)
  /\ coresKind = "number"
  /\ chain = <<>>
  /\ InitRunIdle
  /\ InitSync
  /\ InitAsync

NextFluent ==
  \/ ChainFrom
  \/ ChainThrough
  \/ ChainVia
  \/ ChainInParallel

\* an explorer under configuration
SpecFluent == InitFluent /\ [][NextFluent]_vars

\* new Search(start, space, queue, max) or new AsyncSearch(start, space, queue, max, cores)
InitEither ==
  /\ explorer \in {"sync", "async"}
  /\ start \in SeqsUpTo(SeedValues, MaxStart - 1)
  /\ spaceKind \in SpaceKinds \cup {NoSpace}
  /\ faults \in (IF SpaceSet THEN {{}, {MaxFault}} ELSE {{}})
  /\ guarded \in (IF ~SpaceSet /\ explorer = "sync" THEN BOOLEAN ELSE {FALSE})
  /\ fifo \in BOOLEAN
  /\ max \in {<<>>} \cup {<<b>> : b \in BadBounds \cup 1..MaxBound}
  /\ cores \in (IF explorer = "async" THEN 0..MaxCores ELSE {0})
  /\ coresKind = "number"
  /\ chain = <<>>
  /\ InitRunIdle
  /\ sPc = "start"
  /\ sQueue \in (IF explorer = "sync" THEN Leftovers ELSE {<<>>})
  /\ sProduced = <<>>
  /\ sExpanded = <<>>
  /\ sInserted = <<>>
  /\ sErr = <<>>
  /\ sPulls = 0
  /\ sStopped = FALSE
  /\ sRound = 1
  /\ sPrev = <<>>
  /\ aPc = "start"
  /\ aQueue \in (IF explorer = "async" THEN Leftovers ELSE {<<>>})
  /\ aBatch = <<>>
  /\ aBatchNo = 0
  /\ aIdx = 0
  /\ aInflight = {}
  /\ aResults = <<>>
  /\ aMerged = 0
  /\ aAtPull = <<>>
  /\ aProduced = <<>>
  /\ aExpanded = <<>>
  /\ aResolved = 0
  /\ aErr = <<>>
  /\ aStopAt = "none"
  /\ aPulls = 0
  /\ aWidth = 0
  /\ aRaw = 0
  /\ aRound = 1
  /\ aPrev = <<>>

EitherSync == explorer = "sync" /\ NextSync

EitherAsync == explorer = "async" /\ NextAsync

NextEither ==
  \/ SetFrom
  \/ SetThrough
  \/ SetVia
  \/ SetInParallel
  \/ EitherSync
  \/ EitherAsync

\* one explorer, Search or AsyncSearch, configured and then iterated once
SpecEither == InitEither /\ [][NextEither]_vars

\* ------------------------------------------------------------------------
\* An explorer constructed with defaults and never given a max
\* ------------------------------------------------------------------------
\* `max = 256` in the parameter list of the constructor
DefaultMax == 256

\* `cores = 16` in the parameter list of the constructor of AsyncSearch
DefaultCores == 16

\* this.max after `new Search()` (either definition) or `new AsyncSearch()`
ConstructedMax == IF explorer = "sync" /\ ~guarded THEN <<>> ELSE <<DefaultMax>>

ChainViaNoMax ==
  \E f \in BOOLEAN :
    /\ Via(f, <<>>, <<>>)
    /\ chain' = <<SetterReturns, <<>>>>

InitDefaults ==
  /\ explorer \in {"sync", "async"}
  /\ guarded \in (IF explorer = "sync" THEN BOOLEAN ELSE {FALSE})
  /\ start = <<>>
  /\ spaceKind = NoSpace
  /\ faults = {}
  /\ fifo = TRUE
  /\ max = ConstructedMax
  /\ cores = (IF explorer = "async" THEN DefaultCores ELSE 0)
  /\ coresKind = "number"
  /\ chain = <<>>
  /\ InitRunIdle
  /\ InitSync
  /\ InitAsync

NextDefaults ==
  \/ ChainFrom
  \/ ChainThrough
  \/ ChainViaNoMax
  \/ ChainInParallel
  \/ EitherSync
  \/ EitherAsync

SpecDefaults == InitDefaults /\ [][NextDefaults]_vars

\* ------------------------------------------------------------------------
\* The same explorer iterated twice in succession
\* ------------------------------------------------------------------------
\* a second call of Search[Symbol.iterator] on the same object, once the first
\* generator has completed, thrown or been returned: the generator's locals are
\* fresh, this.queue is the same queue object with whatever it still holds
SyncRestart ==
  /\ explorer = "sync"
  /\ sRound = 1
  /\ sPc \in {"done", "failed", "closed"}
  /\ sRound' = 2
  /\ sPrev' = sProduced
  /\ sPc' = "start"
  /\ sProduced' = <<>>
  /\ sExpanded' = <<>>
  /\ sInserted' = <<>>
  /\ sErr' = <<>>
  /\ sPulls' = 0
  /\ sStopped' = FALSE
  /\ UNCHANGED sQueue
  /\ UNCHANGED <<cfgVars, asyncVars, runVars>>

\* a second call of AsyncSearch[Symbol.asyncIterator] on the same object, once the
\* first generator has ended and the expansions it started have settled
AsyncRestart ==
  /\ explorer = "async"
  /\ aRound = 1
  /\ aPc \in {"done", "failed", "closed"}
  /\ aInflight = {}
  /\ aRound' = 2
  /\ aPrev' = aProduced
  /\ aPc' = "start"
  /\ aBatch' = <<>>
  /\ aBatchNo' = 0
  /\ aIdx' = 0
  /\ aResults' = <<>>
  /\ aMerged' = 0
  /\ aAtPull' = <<>>
  /\ aProduced' = <<>>
  /\ aExpanded' = <<>>
  /\ aResolved' = 0
  /\ aErr' = <<>>
  /\ aStopAt' = "none"
  /\ aPulls' = 0
  /\ aWidth' = 0
  /\ aRaw' = 0
  /\ UNCHANGED <<aQueue, aInflight>>
  /\ UNCHANGED <<cfgVars, syncVars, runVars>>

InitTwice ==
  /\ explorer \in {"sync", "async"}
  /\ start \in SeqsUpTo(SeedValues, MaxStart - 1)
  /\ spaceKind \in SpaceKinds
  /\ faults \in {{}, {MaxFault}}
  /\ guarded = FALSE
  /\ fifo \in BOOLEAN
  /\ max \in {<<>>, <<MaxBound>>}
  /\ cores \in (IF explorer = "async" THEN 1..MaxCores ELSE {0})
  /\ coresKind = "number"
  /\ chain = <<>>
  /\ InitRunIdle
  /\ InitSync
  /\ InitAsync

NextTwice ==
  \/ EitherSync
  \/ EitherAsync
  \/ SyncRestart
  \/ AsyncRestart

\* one configured explorer, iterated, then iterated again
SpecTwice == InitTwice /\ [][NextTwice]_vars

\* ------------------------------------------------------------------------
\* A ConvergingRun alone
\* ------------------------------------------------------------------------
\* new ConvergingRun(start, stepper, convergenceChecker)
InitRun ==
  /\ explorer = "none"
  /\ start = <<>>
  /\ spaceKind = NoSpace
  /\ faults = {}
  /\ guarded = FALSE
  /\ fifo = TRUE
  /\ max = <<>>
  /\ cores = 0
  /\ coresKind = "number"
  /\ chain = <<>>
  /\ InitSync
  /\ InitAsync
  /\ rResult \in 0..MaxValue
  /\ rStepper \in Steppers
  /\ rChecker \in Checkers
  /\ rRuns = 0
  /\ rArg = <<>>
  /\ rFrom = rResult
  /\ rCalls = 0

NextRun == Run

SpecRun == InitRun /\ [][NextRun]_vars

\* ------------------------------------------------------------------------
\* Properties of Search
\* ------------------------------------------------------------------------
Min(a, b) == IF a <= b THEN a ELSE b

\* the first five candidates of the breadth-first traversal from 1 under n -> [n+1, n+2]
BreadthFirstFive == <<1, 2, 3, 3, 4>>

\* C1: with a first-in-first-out queue and no max, Search yields the candidates in the
\* order in which they were added to the queue: what was yielded is the beginning of
\* what was added, and at a yield the queue holds exactly the rest; from start 1 under
\* n -> [n+1, n+2] the first five candidates are 1, 2, 3, 3, 4.
C1_BreadthFirstOrder ==
  (fifo /\ max = <<>>) =>
    /\ IsPrefix(sProduced, sInserted)
    /\ sPc = "yield" => sProduced \o sQueue = sInserted
    /\ (start = <<1>> /\ spaceKind = "succ2" /\ faults = {}) =>
         \A i \in 1..Min(Len(sProduced), 5) : sProduced[i] = BreadthFirstFive[i]

C1_Witness ==
  /\ fifo /\ max = <<>> /\ start = <<1>> /\ spaceKind = "succ2" /\ faults = {}
  /\ sProduced = BreadthFirstFive

\* C4: when space raises on item c, the pull ends with an error naming c, c is not
\* yielded, and from then on no pull yields a candidate, invokes space or touches the
\* queue: the generator has completed.
C4_SyncFaultHalts ==
  [][ /\ sErr' # <<>> =>
           /\ sPc' = "failed"
           /\ sErr' = <<sExpanded'[Len(sExpanded')]>>
           /\ Raises(sErr'[1])
           /\ Len(sProduced') = Len(sExpanded') - 1
      /\ sErr # <<>> => UNCHANGED <<sPc, sProduced, sExpanded, sQueue, sInserted, sErr>>
    ]_vars

C4_Witness ==
  /\ sErr # <<>>
  /\ sProduced # <<>>
  /\ sQueue # <<>>
  /\ sPulls > Len(sExpanded)

\* C6 (as stated): with max set, at every yield of Search the queue holds at most max
\* candidates, for every start list and every expansion function.
C6_SyncBoundAtYield ==
  (max # <<>> /\ sPc = "yield") => Len(sQueue) <= max[1]

\* C8: once the consumer has left its loop, nothing is removed from or added to the
\* queue and space is not invoked: queue, expansions and yielded candidates stay as they
\* were when the last candidate was yielded, whatever pulls are attempted afterwards.
C8_SyncStopIsFinal ==
  [][ sStopped => UNCHANGED <<sQueue, sExpanded, sInserted, sProduced, sStopped>> ]_vars

C8_Witness ==
  /\ sStopped
  /\ sProduced # <<>>
  /\ sQueue # <<>>
  /\ sPulls > Len(sProduced)

\* q2 is q with one occurrence of c taken out
WithoutOne(q, c, q2) ==
  \E i \in 1..Len(q) :
    /\ q[i] = c
    /\ q2 = SubSeq(q, 1, i - 1) \o SubSeq(q, i + 1, Len(q))

\* C11: when space returns undefined for item c, c is yielded all the same, nothing is
\* added to the queue, and the queue after the step is the queue before it (the seeded
\* queue on the first pull) with c taken out.
C11_NoExpansionStillYields ==
  [][ \A c \in 0..(3 + 2 * MaxPulls) :
        ( /\ sProduced' = Append(sProduced, c)
          /\ ~Expand(spaceKind, c).def ) =>
            /\ sInserted' = (IF sPc = "start" THEN sInserted \o start ELSE sInserted)
            /\ WithoutOne(IF sPc = "start" THEN start ELSE sQueue, c, sQueue')
    ]_vars

C11_Witness ==
  /\ spaceKind = "cut"
  /\ Len(sProduced) >= 2
  /\ sProduced[Len(sProduced)] >= 3
  /\ sQueue # <<>>

\* C22: when the expansion of candidate c faults in a Search, the queue is the queue
\* from which c was polled, less c: it is not cleared, nothing is added for c, c is
\* not yielded, and the queue stays so afterwards.
C22_SyncFaultKeepsQueue ==
  [][ /\ \A c \in 0..(3 + 2 * MaxPulls) :
           (sErr = <<>> /\ sErr' = <<c>>) =>
             /\ WithoutOne(IF sPc = "start" THEN start ELSE sQueue, c, sQueue')
             /\ sInserted' = (IF sPc = "start" THEN sInserted \o start ELSE sInserted)
             /\ sProduced' = sProduced
             /\ sExpanded' = Append(sExpanded, c)
      /\ sErr # <<>> => UNCHANGED <<sQueue, sProduced, sInserted, sExpanded, sErr>>
    ]_vars

C22_Witness ==
  /\ sErr # <<>>
  /\ Len(sQueue) >= 2
  /\ sProduced # <<>>
  /\ sPulls = Len(sProduced) + 2

IsSuffix(s, t) ==
  /\ Len(s) <= Len(t)
  /\ \A i \in 1..Len(s) : s[i] = t[Len(t) - Len(s) + i]

\* what the expansion of the candidate produced last adds to the queue
LastSuccessors(produced, kind) ==
  IF produced = <<>> THEN <<>> ELSE Added(Expand(kind, produced[Len(produced)]))

\* C20 (as stated): a Search with an expansion function has invoked exactly k
\* expansions whenever it has produced k candidates, and at each yield the successors
\* of the candidate produced last are in the queue.
C20_ExpansionsEqualProductions ==
  (explorer = "sync" /\ SpaceSet) =>
    /\ Len(sExpanded) = Len(sProduced)
    /\ sPc = "yield" => IsSuffix(LastSuccessors(sProduced, spaceKind), sQueue)

\* C20 (amended): a Search with an expansion function does nothing until it is pulled;
\* a pull produces at most one candidate, and one that does makes exactly one
\* expansion; k candidates produced mean k expansions invoked, or k + 1 once an
\* expansion has faulted; at each yield the successors of the candidate produced last
\* have been added to the queue, and are at its end when no max is set.
C20_LazyOnePerPull ==
  [][ (explorer = "sync" /\ spaceKind' # NoSpace) =>
        /\ sPc' = "start" =>
             (sPulls' = 0 /\ sProduced' = <<>> /\ sExpanded' = <<>> /\ sInserted' = <<>>)
        /\ Len(sExpanded') = Len(sProduced') + (IF sErr' # <<>> THEN 1 ELSE 0)
        /\ Len(sProduced') <= Len(sProduced) + 1
        /\ Len(sExpanded') <= Len(sExpanded) + 1
        /\ Len(sProduced') = Len(sProduced) + 1 =>
             /\ sPulls' = sPulls + 1
             /\ Len(sExpanded') = Len(sExpanded) + 1
             /\ sPc' = "yield"
        /\ sPc' = "yield" =>
             /\ Len(sProduced') = sPulls'
             /\ IsSuffix(LastSuccessors(sProduced', spaceKind'), sInserted')
             /\ max' = <<>> => IsSuffix(LastSuccessors(sProduced', spaceKind'), sQueue')
    ]_vars

C20_Witness ==
  /\ explorer = "sync"
  /\ SpaceSet
  /\ sErr # <<>>
  /\ Len(sProduced) >= 2
  /\ Len(sExpanded) = Len(sProduced) + 1
  /\ max # <<>>

\* the start candidates in the order in which the queue hands them out
RECURSIVE Reverse(_)
Reverse(q) == IF q = <<>> THEN <<>> ELSE Append(Reverse(Tail(q)), q[1])

InPolicyOrder(q) == IF fifo THEN q ELSE Reverse(q)

PendingPcs == {"seeding", "cores", "expanding"}

\* what .flat() makes of the expansions of batch b, in batch order
RECURSIVE ChildrenOf(_)
ChildrenOf(b) ==
  IF b = <<>> THEN <<>>
  ELSE LET r == Expand(spaceKind, b[1])
       IN (IF r.def THEN r.items ELSE <<Undef>>) \o ChildrenOf(Tail(b))

\* C2: with a first-in-first-out queue, no max and an expansion function that returns a
\* list for every candidate, AsyncSearch with a fixed width yields the same sequence as
\* Search: whatever each has yielded so far, the two sequences agree on their common
\* length.
C2_AsyncYieldsAsSync ==
  (fifo /\ max = <<>> /\ faults = {} /\ spaceKind \in {"succ1", "succ2"}) =>
    \A i \in 1..Min(Len(sProduced), Len(aProduced)) : sProduced[i] = aProduced[i]

C2_Witness ==
  /\ cores = 2 /\ start = <<1, 3>> /\ spaceKind = "succ2"
  /\ Len(aProduced) = 4
  /\ aProduced = sProduced
  /\ aBatchNo = 2

\* C3: a batch is removed from the queue only when no expansion is in flight and the
\* results of the batch before it have been added to the queue (and the queue bounded);
\* every expansion in flight belongs to the batch removed last.
C3_BatchesDoNotOverlap ==
  [][ /\ aBatchNo' # aBatchNo =>
           /\ aInflight = {}
           /\ aMerged = aBatchNo
           /\ (aBatchNo >= 1 /\ max # <<>>) => Len(aQueue) <= max[1]
      /\ \A e \in aInflight' : e.batch = aBatchNo'
    ]_vars

C3_Witness ==
  /\ aBatchNo = 2
  /\ aPc = "expanding"
  /\ Cardinality(aInflight) = 2

\* C5: when an expansion of a batch faults, whatever siblings had fulfilled before, the
\* traversal has failed with an error naming the whole batch, the queue is as the removal
\* of the batch left it, and no candidate of the batch has been yielded.
C5_FaultedBatchLeavesNoTrace ==
  aErr # <<>> =>
    /\ aPc = "failed"
    /\ aErr = <<aBatch>>
    /\ aQueue = aAtPull
    /\ aMerged = aBatchNo - 1
    /\ aIdx = 0

C5_Witness ==
  /\ aErr # <<>>
  /\ Len(aBatch) = 2
  /\ \E i \in 1..2 : aResults[i].done /\ aResults[i].res.def
  /\ aProduced # <<>>

\* C7: with max set, whenever AsyncSearch yields a candidate the queue holds at most max
\* candidates, for every start list, width and expansion function.
C7_AsyncBoundAtYield ==
  (max # <<>> /\ aPc = "yield") => Len(aQueue) <= max[1]

C7_Witness ==
  /\ max # <<>> /\ aPc = "yield"
  /\ Len(start) > max[1] + ResolveCores(cores)
  /\ Len(aQueue) = max[1]
  /\ aBatchNo = 1

C10_InFlightResultsDropped ==
  aStopAt = "expanding" => aQueue = aAtPull

\* C10 (amended): a return() issued while the expansions of a batch are in flight takes
\* effect at the next yield only: when the traversal closes, the results of that batch
\* have been added to the queue (in batch order, then bounded) and its first candidate
\* has been delivered; no further batch is removed.
C10_InFlightResultsMerged ==
  (aStopAt = "expanding" /\ aPc = "closed") =>
    /\ aMerged = aBatchNo
    /\ aIdx = 1
    /\ aProduced # <<>> /\ aProduced[Len(aProduced)] = aBatch[1]
    /\ max = <<>> => aQueue = aAtPull \o ChildrenOf(aBatch)
    /\ max # <<>> => Len(aQueue) = Min(max[1], Len(aAtPull \o ChildrenOf(aBatch)))

C10_Witness ==
  /\ aStopAt = "expanding" /\ aPc = "closed"
  /\ Len(aBatch) = 2
  /\ aQueue # aAtPull
  /\ aInflight = {}

\* the candidates that k successive polls remove from queue q
RECURSIVE PollN(_, _)
PollN(q, k) ==
  IF k = 0 \/ q = <<>> THEN <<>>
  ELSE <<PollNext(q).item>> \o PollN(PollNext(q).rest, k - 1)

RECURSIVE Drop(_, _)
Drop(q, k) == IF k = 0 \/ q = <<>> THEN q ELSE Drop(PollNext(q).rest, k - 1)

\* C17: when resolving the width of a batch faults, the traversal halts with that
\* fault and the batch never starts: the queue is what the merge of the previous batch
\* (or the seeding) left, no expansion is in flight, every candidate expanded so far
\* has been yielded, and nothing changes afterwards.
C17_CoresFaultStartsNoBatch ==
  [][ /\ aErr' = <<NoBatch>> =>
           /\ aPc' = "failed"
           /\ aQueue' = (IF aBatchNo' = 0 THEN start
                         ELSE AsyncMerge(aAtPull', Flatten(aResults'), max))
           /\ aInflight' = {}
           /\ aExpanded' = aProduced'
           /\ aMerged' = aBatchNo'
      /\ aErr = <<NoBatch>> =>
           UNCHANGED <<aPc, aQueue, aBatch, aBatchNo, aInflight, aProduced, aExpanded>>
    ]_vars

C17_Witness ==
  /\ aErr = <<NoBatch>>
  /\ aBatchNo >= 1
  /\ aQueue # <<>>
  /\ aProduced # <<>>

\* C18: a batch holds min(w, n) candidates, w the width resolved for it and n the size
\* of the queue when it is removed; they are the candidates the next polls would give,
\* the other n - min(w, n) stay in the queue, and at most w expansions are in flight.
C18_BatchIsNextUpToWidth ==
  [][ /\ aBatchNo' = aBatchNo + 1 =>
           /\ Len(aBatch') = Min(aWidth', Len(aQueue))
           /\ aBatch' = PollN(aQueue, Min(aWidth', Len(aQueue)))
           /\ aQueue' = Drop(aQueue, Min(aWidth', Len(aQueue)))
           /\ Len(aQueue') = Len(aQueue) - Min(aWidth', Len(aQueue))
      /\ Cardinality(aInflight') <= aWidth'
    ]_vars

C18_Witness ==
  /\ aPc = "expanding"
  /\ aWidth = MaxCores
  /\ Len(aBatch) = MaxCores
  /\ aQueue # <<>>
  /\ Cardinality(aInflight) = MaxCores
  /\ aBatchNo >= 2

\* C19: the width of a batch is max(1, v) for the integer v that cores is or gives,
\* zero and negative values included; the batch holds at least one candidate and the
\* queue is strictly smaller after the removal.
C19_WidthAtLeastOne ==
  [][ aBatchNo' = aBatchNo + 1 =>
        /\ aWidth' >= 1
        /\ aWidth' >= aRaw'
        /\ aWidth' \in {1, aRaw'}
        /\ Len(aBatch') >= 1
        /\ Len(aQueue') < Len(aQueue)
    ]_vars

C19_Witness ==
  /\ coresKind = "function"
  /\ aRaw < 0
  /\ aWidth = 1
  /\ Len(aBatch) = 1
  /\ aBatchNo >= 2

\* C21: AsyncSearch yields one candidate at a time, in the order of the batches and of
\* their members; when a candidate is yielded every expansion of its batch has
\* fulfilled and the results of the batch have been added to the queue.
C21_BatchDoneBeforeItsYields ==
  [][ Len(aProduced') > Len(aProduced) =>
        /\ Len(aProduced') = Len(aProduced) + 1
        /\ IsPrefix(aProduced', aExpanded')
        /\ Len(aExpanded') - Len(aProduced') < Len(aBatch')
        /\ aInflight' = {}
        /\ \A i \in 1..Len(aResults') : aResults'[i].done
        /\ Len(aResults') = Len(aBatch')
        /\ aMerged' = aBatchNo'
        /\ max = <<>> => aQueue' = aAtPull' \o ChildrenOf(aBatch')
    ]_vars

C21_Witness ==
  /\ aPc = "yield"
  /\ Len(aBatch) = 2
  /\ aBatch[1] # aBatch[2]
  /\ aProduced[Len(aProduced)] = aBatch[2]
  /\ aBatchNo >= 2

\* C23: the queue of AsyncSearch does not change while expansions are in flight, and the
\* queue after the merge of a batch is determined by the queue the batch was removed
\* from and the batch alone: the results in batch order, added at once and then
\* bounded, in whatever order the expansions fulfilled.
C23_MergeIgnoresCompletionOrder ==
  [][ /\ aInflight # {} => aQueue' = aQueue
      /\ aMerged' # aMerged =>
           /\ aMerged' = aBatchNo
           /\ aInflight = {}
           /\ aQueue = aAtPull
           /\ aQueue' = AsyncMerge(aAtPull, ChildrenOf(aBatch), max)
    ]_vars

C23_Witness ==
  /\ aPc = "yield"
  /\ aMerged = 2
  /\ Len(aBatch) = 2
  /\ ChildrenOf(<<aBatch[1]>>) # ChildrenOf(<<aBatch[2]>>)
  /\ aQueue = AsyncMerge(aAtPull, ChildrenOf(aBatch), max)
  /\ aQueue # aAtPull

\* C24: resolveCores() is called once per batch, with a queue that is not empty, and
\* the batch is removed next, from that same queue; the width given for a batch never
\* changes the batch afterwards, a different width shows in the next batch only.
C24_WidthResolvedOncePerBatch ==
  [][ /\ aResolved' = aBatchNo' + (IF aPc' = "cores" \/ aErr' = <<NoBatch>> THEN 1 ELSE 0)
      /\ aResolved' # aResolved =>
           /\ aResolved' = aResolved + 1
           /\ aPc' = "cores"
           /\ aQueue' # <<>>
           /\ aInflight' = {}
      /\ aPc = "cores" => (aQueue' = aQueue \/ aBatchNo' = aBatchNo + 1)
      /\ aBatchNo' # aBatchNo =>
           /\ aPc = "cores"
           /\ aBatchNo' = aBatchNo + 1
           /\ aWidth' = ResolveCores(aRaw')
           /\ Len(aBatch') = Min(aWidth', Len(aQueue))
      /\ aBatchNo' = aBatchNo => (aBatch' = aBatch /\ aWidth' = aWidth /\ aRaw' = aRaw)
    ]_vars

C24_Witness ==
  /\ coresKind = "function"
  /\ aBatchNo = 2
  /\ aResolved = 2
  /\ aWidth = 2
  /\ Len(aBatch) = 2
  /\ Len(aExpanded) = 3
  /\ aPc = "yield"

\* C29: AsyncSearch removes a batch, resolves its width and starts its expansions only
\* when every candidate of the batches before it has been delivered and a next() of
\* the consumer is pending; the candidates expanded and not yet delivered are those of
\* one batch at most.
C29_NextBatchOnDemand ==
  [][ /\ aBatchNo' # aBatchNo =>
           /\ Len(aProduced) = Len(aExpanded)
           /\ aPulls = Len(aProduced) + 1
           /\ aInflight = {}
      /\ aResolved' # aResolved => aPulls' = Len(aProduced') + 1
      /\ aExpanded' # aExpanded => aBatchNo' = aBatchNo + 1
      /\ Len(aExpanded') - Len(aProduced') <= Len(aBatch')
      /\ IsPrefix(aProduced', aExpanded')
    ]_vars

C29_Witness ==
  /\ aPc = "yield"
  /\ aBatchNo = 2
  /\ Len(aBatch) = 2
  /\ aIdx = 1
  /\ Len(aQueue) >= 2
  /\ Len(aExpanded) = Len(aProduced) + 1

\* C12 (as stated): no undefined result of an expansion is ever added to the queue of
\* AsyncSearch or yielded as a candidate.
C12_NoMarkerInFrontier ==
  /\ \A i \in 1..Len(aQueue) : aQueue[i] # Undef
  /\ \A i \in 1..Len(aProduced) : aProduced[i] # Undef

\* ------------------------------------------------------------------------
\* Properties of both explorers
\* ------------------------------------------------------------------------
\* C13: an explorer with no start candidates ends on its first pull: nothing is
\* yielded, space is never invoked, no error is raised, and AsyncSearch resolves no
\* width and removes no batch; whatever the queue held, whatever space is or is not.
C13_EmptyStartYieldsNothing ==
  start = <<>> =>
    /\ sProduced = <<>> /\ sExpanded = <<>> /\ sErr = <<>>
    /\ sPc \in {"start", "done", "closed"}
    /\ (sPulls >= 1 /\ ~sStopped) => (sPc = "done" /\ sQueue = <<>>)
    /\ aProduced = <<>> /\ aExpanded = <<>> /\ aErr = <<>>
    /\ aBatchNo = 0 /\ aResolved = 0
    /\ aPc \in {"start", "seeding", "done", "closed"}
    /\ (aPc = "done") => aQueue = <<>>

C13_Witness ==
  /\ start = <<>>
  /\ explorer = "sync"
  /\ ~SpaceSet /\ ~guarded
  /\ sPc = "done"
  /\ sPulls >= 2

\* C15: the second iteration of a configured explorer yields what the first one
\* yielded: the two sequences agree as far as both go, and a second iteration that
\* runs to its end (or to its fault) yields all that the first one yielded, also
\* when the first one was returned early or halted by a fault.
C15_SecondIterationRepeats ==
  /\ sRound = 2 =>
       /\ IsPrefix(sProduced, sPrev) \/ IsPrefix(sPrev, sProduced)
       /\ sPc \in {"done", "failed"} => IsPrefix(sPrev, sProduced)
  /\ aRound = 2 =>
       /\ IsPrefix(aProduced, aPrev) \/ IsPrefix(aPrev, aProduced)
       /\ aPc \in {"done", "failed"} => IsPrefix(aPrev, aProduced)

C15_Witness ==
  /\ sRound = 2
  /\ sPc = "done"
  /\ Len(sPrev) >= 1
  /\ Len(sProduced) > Len(sPrev)

\* C25: a setter returns the explorer it was called on and changes its own field only:
\* from the start candidates, through the expansion function, via the queue and, when a
\* max is passed, the max, which it leaves as it was otherwise; inParallel the cores.
C25_SettersChangeOwnField ==
  [][ /\ chain' # <<>> /\ chain'[1] = "this"
      /\ UNCHANGED <<explorer, guarded, coresKind>>
      /\ UNCHANGED <<sPc, sProduced, sExpanded, sPulls, aPc, aProduced, aExpanded, aPulls,
                     aBatchNo, aResolved>>
      /\ start' # start =>
           UNCHANGED <<spaceKind, faults, fifo, sQueue, aQueue, max, cores>>
      /\ (spaceKind' # spaceKind \/ faults' # faults) =>
           UNCHANGED <<start, fifo, sQueue, aQueue, max, cores>>
      /\ (fifo' # fifo \/ sQueue' # sQueue \/ aQueue' # aQueue \/ max' # max) =>
           UNCHANGED <<start, spaceKind, faults, cores>>
      /\ cores' # cores =>
           UNCHANGED <<start, spaceKind, faults, fifo, sQueue, aQueue, max>>
      /\ chain'[2] = <<>> => max' = max
      /\ chain'[2] # <<>> => max' = chain'[2]
    ]_vars

C25_Witness ==
  /\ chain = <<"this", <<>>>>
  /\ max = <<1>>
  /\ fifo = FALSE
  /\ start = <<3>>
  /\ spaceKind = "succ2"
  /\ explorer = "async" /\ cores = 1

\* s can be obtained from t by deleting elements
RECURSIVE IsSubseq(_, _)
IsSubseq(s, t) ==
  IF s = <<>> THEN TRUE
  ELSE IF t = <<>> THEN FALSE
  ELSE IF s[1] = t[1] THEN IsSubseq(Tail(s), Tail(t))
  ELSE IsSubseq(s, Tail(t))

\* how many times v occurs in s
Count(s, v) == Cardinality({i \in 1..Len(s) : s[i] = v})

\* the part of t after its prefix s
After(s, t) == SubSeq(t, Len(s) + 1, Len(t))

\* C26: in a traversal the queue after a step holds only candidates it held before the
\* step and candidates inserted by the step, in their order: a candidate that select(max)
\* discarded is in no later queue, so it is not polled, expanded or yielded again; the
\* candidates polled are taken from the queue, and a step that discards raises nothing.
C26_EvictedNeverRevisited ==
  [][ /\ (explorer = "sync" /\ sPc \in {"start", "yield"} /\ sPulls' # sPulls) =>
           LET base == IF sPc = "start" THEN <<>> ELSE sQueue
               new == After(sInserted, sInserted')
               polled == IF sErr' # sErr THEN sErr' ELSE After(sProduced, sProduced')
           IN /\ IsSubseq(sQueue', base \o new)
              /\ Len(polled) <= 1
              /\ \A i \in 1..Len(polled) :
                   \E j \in 1..Len(base \o new) : (base \o new)[j] = polled[i]
              /\ Len(sQueue') + Len(polled) <= Len(base \o new)
              /\ Len(sQueue') + Len(polled) < Len(base \o new) =>
                   (sErr' = <<>> /\ sPc' = "yield")
      /\ (explorer = "async" /\ aPc # "start") =>
           LET new == IF aPc = "seeding" /\ aPc' # "seeding" THEN start
                      ELSE IF aMerged' # aMerged THEN ChildrenOf(aBatch)
                      ELSE <<>>
           IN /\ IsSubseq(aQueue', aQueue \o new)
              /\ aBatchNo' # aBatchNo =>
                   \A v \in {aQueue[i] : i \in 1..Len(aQueue)} :
                     Count(aBatch', v) + Count(aQueue', v) = Count(aQueue, v)
              /\ Len(aQueue') < Len(aQueue \o new) =>
                   (aBatchNo' # aBatchNo \/ (aErr' = <<>> /\ aPc' \in {"yield", "closed"}))
    ]_vars

C26_Witness ==
  /\ explorer = "sync"
  /\ max = <<1>>
  /\ sPc = "done"
  /\ sErr = <<>>
  /\ Len(sProduced) >= 3
  /\ Len(sInserted) > Len(sProduced)

\* the number of candidates that "cut" derives from candidate c, c included
RECURSIVE Family(_)
Family(c) == IF c # Undef /\ c < 3 THEN 1 + Family(c + 1) ELSE 1

RECURSIVE Total(_)
Total(s) == IF s = <<>> THEN 0 ELSE Family(s[1]) + Total(Tail(s))

\* the expansion function has finite chains and the consumer pulls often enough
Fits == spaceKind = "cut" /\ Total(start) + 1 <= MaxPulls

\* C27: in a Search without max, every candidate inserted is in the queue or has been
\* yielded, once; with an expansion function of finite chains and a consumer that keeps
\* pulling, the traversal ends with the queue empty and every candidate inserted
\* yielded exactly once.
C27_DrainsEveryCandidateOnce ==
  /\ [](\A v \in 0..(3 + 2 * MaxPulls) :
          Count(sInserted, v) = Count(sProduced, v) + Count(sQueue, v))
  /\ (Fits /\ sPc = "start") ~>
       ( /\ sPc = "done"
         /\ sQueue = <<>>
         /\ Len(sProduced) = Total(start)
         /\ \A v \in 0..(3 + 2 * MaxPulls) : Count(sInserted, v) = Count(sProduced, v) )

C27_Witness ==
  /\ Fits
  /\ sPc = "done"
  /\ sQueue = <<>>
  /\ start = <<1, 3>>
  /\ Len(sProduced) = 4
  /\ Len(sInserted) = 4

\* C28 (as stated): an explorer constructed with defaults and configured without a max
\* runs its traversal with no bound on the queue.
C28_NoBoundUnlessConfigured ==
  (sPc # "start" \/ aPc # "start") => max = <<>>

\* the stepper applied k times to x
RECURSIVE StepN(_, _)
StepN(x, k) == IF k = 0 THEN x ELSE StepN(Step(rStepper, x), k - 1)

\* C30: run(maxSteps) calls the stepper at most maxSteps times and leaves as result the
\* stepper applied k <= maxSteps times to the result it started from; then hasConverged
\* holds of the result or k = maxSteps; run(0) leaves the result as it was.
C30_RunStopsWithinMaxSteps ==
  [][ rRuns' = rRuns + 1 =>
        /\ rFrom' = rResult
        /\ rCalls' <= rArg'[1]
        /\ \E k \in 0..rArg'[1] :
             /\ rResult' = StepN(rResult, k)
             /\ HasConverged(rResult') \/ k = rArg'[1]
        /\ rArg'[1] = 0 => (rResult' = rResult /\ rCalls' = 0)
    ]_vars

C30_Witness ==
  /\ rRuns >= 1
  /\ rArg = <<MaxSteps>>
  /\ rCalls >= 2
  /\ rCalls < MaxSteps
  /\ rResult # rFrom
  /\ HasConverged(rResult)

\* C16 (as stated): no traversal runs with a max that is zero or negative.
C16_NoTraversalWithBadBound ==
  (sPc # "start" \/ aPc # "start") => (max = <<>> \/ max[1] >= 1)

TypeOK ==
  /\ sPc \in {"start", "yield", "done", "failed", "closed"}
  /\ Len(sProduced) <= sPulls
====
